---- MODULE Spec2Model ----
(***************************************************************************)
(* Storefront: cart (App.tsx), checkout wizard (CheckoutModal.tsx),        *)
(* local-storage backend (services/backend), translation pipeline          *)
(* (AutoTranslatedText).                                                    *)
(*                                                                         *)
(* Money is counted in cents (25.00 -> 2500, 12.50 -> 1250).               *)
(* Cart line objects live in a heap, because an order stores the very      *)
(* array of line objects the cart held (items: cart), so that sharing      *)
(* between the cart and the stored orders is visible in the model.         *)
(***************************************************************************)
EXTENDS Integers, Sequences, FiniteSets, Bags, TLC

\* ------------------------------------------------------------------ bounds
MaxQty == 2          \* largest quantity of a cart line that is explored
MaxOrders == 2       \* largest number of records in the order history
MaxFailures == 1     \* number of localStorage writes that may throw
MaxCatalog == 2      \* largest number of products in the catalog
MaxCalls == 2        \* largest number of remote translation calls in flight
MaxCartOrders == 1   \* orders in the history while the cart's handlers are explored
MaxCardLen == 20     \* longest card number that is entered
MaxTail == 2         \* number of trailing characters of it that vary freely
MaxSubscribing == 2  \* largest number of addSubscriber calls in their delay

\* ------------------------------------------------------- program constants
shippingCost == 2500
importDuties == 1250

NULL == "null"

ProductIds == {"p1", "p2"}
\* A Product, reduced to the fields the cart and the orders compute with.
Products == {[id |-> "p1", price |-> 10000], [id |-> "p2", price |-> 2550]}

Deltas == {-2, -1, 1}
\* `ETH-${Math.floor(Math.random() * 100000)}`: the draws may repeat
OrderRefs == {"ETH-1"}
ShippingInputs == {"addrA"}
PaymentMethods == {"credit_card", "paypal", "bank_transfer"}
CardProviders == {"visa", "amex"}

\* ids that addProduct may generate: `prod_${Date.now()}_${random}`
GeneratedIds == {"prod_1"}
Prices == {10000, 2550}
\* what the visitor enters in the newsletter field: two addresses that
\* differ in letter case only, and a third one
Emails == {"a@x.et", "A@x.et", "b@x.et"}
\* the ids the admin dashboard may pass, one of them never in the catalog
CatalogIds == ProductIds \cup GeneratedIds \cup {"p0"}
\* the Partial<Product> values of the edit form
Updates == {[price |-> price] : price \in Prices}
\* the seed catalog (constants.MOCK_PRODUCTS)
MOCK_PRODUCTS == <<[id |-> "p1", price |-> 10000], [id |-> "p2", price |-> 2550]>>

\* Strings entered in the card number field are sequences of code units:
\* '0'..'9' are 48..57, '-' is 45, ' ' is 32, 'x' is 120.
DigitCodes == 48..57
CardKeys == DigitCodes \cup {45, 32, 120}
\* the valid test number 4539148803436467
TestCard == <<52, 53, 51, 57, 49, 52, 56, 56, 48, 51, 52, 51, 54, 52, 54, 55>>
Zeros == [i \in 1..MaxCardLen |-> 48]
\* the strings of length n over CardKeys
RECURSIVE Tails(_)
Tails(n) ==
    IF n = 0 THEN {<<>>}
    ELSE {Append(t, ch) : t \in Tails(n - 1), ch \in CardKeys}
\* a base string whose last characters are overtyped
Overtyped(base, n, t) == SubSeq(base, 1, n - Len(t)) \o t
\* the trailing characters a string of length n may get
TailsUpTo(n) ==
    UNION {Tails(k) : k \in 0..(IF n < MaxTail THEN n ELSE MaxTail)}
\* what the user enters: the first n characters of a base string, with up
\* to MaxTail trailing characters of any kind
CardInputs(base, n) == {Overtyped(base, n, t) : t \in TailsUpTo(n)}

\* the object heap: room for the lines of the cart and of every stored order
Refs == 1..((MaxOrders + 2) * Cardinality(ProductIds))

VARIABLES
    heap,             \* allocated Refs -> cart line object [id, price, quantity]
    cart,             \* App: cart state, a sequence of references
    isCheckoutOpen,   \* App: isCheckoutOpen (CheckoutModal's isOpen prop)
    language,         \* i18n: the active language code
    step,             \* CheckoutModal: 'shipping' | 'payment' | 'confirmation'
    paymentMethod,    \* CheckoutModal
    cardProvider,     \* CheckoutModal
    isProcessing,     \* CheckoutModal
    processingStatus, \* CheckoutModal
    shippingData,     \* CheckoutModal: ShippingDetails | null
    orderRef,         \* CheckoutModal
    errors,           \* CheckoutModal: the set of fields that carry an error
    cardNumber,       \* the content of the card form's cardNumber input
    flows,            \* the payment flows in flight: [pc, closure]
    alerted,          \* an alert("Payment Gateway Error...") was raised
    sessionSaved,     \* createOrder succeeded since the modal was opened
    orders,           \* BackendService.orders
    lsOrders,         \* localStorage[KEYS.ORDERS]: <<>> if absent, else <<text>>
    failures,         \* number of localStorage writes that threw so far
    products,         \* BackendService.products
    lsProducts,       \* localStorage[KEYS.PRODUCTS]: <<>> if absent, else <<text>>
    subscribers,      \* BackendService.subscribers
    lsSubscribers,    \* localStorage[KEYS.SUBSCRIBERS]: <<>> if absent, else <<text>>
    subscribing,      \* addSubscriber calls in their delay: a bag of emails
    comps,            \* the AutoTranslatedText components: props and state
    cache,            \* localStorage `tr_v2_${language}_${hash}` entries
    calls,            \* translateText calls in flight: a bag, since they
                      \* settle in any order
    lastRun           \* what the effects that ran in the last step did:
                      \* component |-> lookups made, call issued or not

vars == <<heap, cart, isCheckoutOpen, language, step, paymentMethod,
          cardProvider, isProcessing, processingStatus, shippingData,
          orderRef, errors, cardNumber, flows, alerted, sessionSaved, orders, lsOrders,
          failures, products, lsProducts, subscribers, lsSubscribers,
          subscribing, comps, cache, calls, lastRun>>

refVars == <<heap, cart, orders, flows>>
catalogVars == <<products, lsProducts>>
newsVars == <<subscribers, lsSubscribers, subscribing>>
trVars == <<comps, cache, calls, lastRun>>
scalarWizardVars == <<step, paymentMethod, cardProvider, isProcessing,
                      processingStatus, shippingData, orderRef, errors,
                      cardNumber, alerted, sessionSaved>>
shopVars == <<refVars, isCheckoutOpen, scalarWizardVars, lsOrders, failures,
              products, lsProducts, newsVars>>

\* ------------------------------------------------------------- sequences
Range(s) == {s[i] : i \in DOMAIN s}

RECURSIVE SumSeq(_)
SumSeq(s) == IF s = <<>> THEN 0 ELSE Head(s) + SumSeq(Tail(s))

\* --------------------------------------------------------------- the heap
FreeRefs(h) == Refs \ DOMAIN h

\* the k-th smallest free reference
NthFree(h, k) ==
    CHOOSE r \in FreeRefs(h) : Cardinality({q \in FreeRefs(h) : q < r}) = k - 1

\* the line objects an array of references denotes
Deref(h, refs) == [i \in DOMAIN refs |-> h[refs[i]]]

RECURSIVE Dedup(_)
Dedup(s) ==
    IF s = <<>> THEN <<>>
    ELSE LET p == Dedup(SubSeq(s, 1, Len(s) - 1))
         IN IF s[Len(s)] \in Range(p) THEN p ELSE Append(p, s[Len(s)])

RECURSIVE ItemsOf(_)
ItemsOf(os) == IF os = <<>> THEN <<>> ELSE Head(os).items \o ItemsOf(Tail(os))

RECURSIVE CartsOf(_)
CartsOf(fs) ==
    IF fs = {} THEN <<>>
    ELSE LET f == CHOOSE g \in fs : TRUE
         IN f.closure.cart \o CartsOf(fs \ {f})

\* Addresses are not observable: after every step the garbage is dropped and
\* the live objects are renumbered in the order in which the cart, the stored
\* orders and the closures mention them.
Settled(h, c, os, fs) ==
    LET live == Dedup(c \o ItemsOf(os) \o CartsOf(fs))
        ren(r) == CHOOSE k \in DOMAIN live : live[k] = r
        renSeq(refs) == [i \in DOMAIN refs |-> ren(refs[i])]
    IN [heap |-> [k \in DOMAIN live |-> h[live[k]]],
        cart |-> renSeq(c),
        orders |-> [i \in DOMAIN os |->
                      [os[i] EXCEPT !.items = renSeq(os[i].items)]],
        flows |-> {[f EXCEPT !.closure.cart = renSeq(f.closure.cart)] :
                     f \in fs}]

\* the step's result, written to the four variables that hold references
Store(h, c, os, fs) ==
    LET n == Settled(h, c, os, fs)
    IN /\ heap' = n.heap
       /\ cart' = n.cart
       /\ orders' = n.orders
       /\ flows' = n.flows

\* ------------------------------------------------------------------ cart
\* CartItem.quantity after handleUpdateCartQuantity: Math.max(1, q + delta)
NewQuantity_NoFloor(q, delta) == IF q + delta < 0 THEN 0 ELSE q + delta
NewQuantity(q, delta) == IF q + delta < 1 THEN 1 ELSE q + delta

\* indices of the cart lines whose id is `id`
Matching(h, c, id) == {i \in DOMAIN c : h[c[i]].id = id}

\* the quantities of those lines
Quantities(h, c, id) == {h[c[i]].quantity : i \in Matching(h, c, id)}

\* prev.map(item => item.id === id ? {...item, quantity: f(item)} : item):
\* every matching line is replaced by a fresh object, the others are kept;
\* newQ maps a matching line's quantity to its new quantity.
MapCart(h, c, id, newQ) ==
    LET m == Matching(h, c, id)
        rank(i) == Cardinality({j \in m : j <= i})
        c2 == [i \in DOMAIN c |-> IF i \in m THEN NthFree(h, rank(i)) ELSE c[i]]
        h2 == [r \in DOMAIN h \cup {c2[i] : i \in m} |->
                 IF \E i \in m : c2[i] = r
                 THEN LET i == CHOOSE j \in m : c2[j] = r
                      IN [h[c[i]] EXCEPT !.quantity = newQ[h[c[i]].quantity]]
                 ELSE h[r]]
    IN [cart |-> c2, heap |-> h2]

\* handleAddToCart without the lookup of an existing line
AddedToCart_AlwaysAppend(h, c, product) ==
    LET r == NthFree(h, 1)
    IN [cart |-> Append(c, r),
        heap |-> [q \in DOMAIN h \cup {r} |->
                    IF q = r THEN [id |-> product.id, price |-> product.price,
                                   quantity |-> 1]
                    ELSE h[q]]]

\* handleAddToCart: setCart(prev => ...)
AddedToCart(h, c, product) ==
    IF Matching(h, c, product.id) # {}
    THEN MapCart(h, c, product.id,
                 [q \in Quantities(h, c, product.id) |-> q + 1])
    ELSE LET r == NthFree(h, 1)
         IN [cart |-> Append(c, r),
             heap |-> [q \in DOMAIN h \cup {r} |->
                         IF q = r THEN [id |-> product.id,
                                        price |-> product.price,
                                        quantity |-> 1]
                         ELSE h[q]]]

\* handleUpdateCartQuantity writing item.quantity in place
UpdatedCartQuantity_InPlace(h, c, id, delta) ==
    [cart |-> c,
     heap |-> [r \in DOMAIN h |->
                 IF \E i \in Matching(h, c, id) : c[i] = r
                 THEN [h[r] EXCEPT !.quantity = NewQuantity(h[r].quantity, delta)]
                 ELSE h[r]]]

\* handleUpdateCartQuantity: setCart(prev => prev.map(...))
UpdatedCartQuantity(h, c, id, delta) ==
    MapCart(h, c, id, [q \in Quantities(h, c, id) |-> NewQuantity(q, delta)])

\* handleRemoveFromCart: setCart(prev => prev.filter(item => item.id !== id))
RemovedFromCart(h, c, id) ==
    LET Keep(r) == h[r].id # id IN [cart |-> SelectSeq(c, Keep), heap |-> h]

\* CheckoutModal: subtotal and total of a cart, as computed at render time
Subtotal_NoQuantity(h, c) == SumSeq([i \in DOMAIN c |-> h[c[i]].price])
Subtotal(h, c) == SumSeq([i \in DOMAIN c |-> h[c[i]].price * h[c[i]].quantity])
Total(h, c) == Subtotal(h, c) + shippingCost + importDuties

\* The page behind the open checkout modal is covered by the modal's
\* backdrop (fixed inset-0, z-60), so the shop's handlers run only while the
\* modal is closed.
ShopReachable == ~isCheckoutOpen

handleAddToCart(product) ==
    /\ ShopReachable
    /\ Cardinality(FreeRefs(heap)) >= Len(cart) + 1
    /\ \A i \in Matching(heap, cart, product.id) :
          heap[cart[i]].quantity < MaxQty
    /\ LET n == AddedToCart(heap, cart, product) IN Store(n.heap, n.cart, orders, flows)
    /\ UNCHANGED <<isCheckoutOpen, language, scalarWizardVars, lsOrders,
                   failures, catalogVars, newsVars, trVars>>

handleUpdateCartQuantity(id, delta) ==
    /\ ShopReachable
    /\ Matching(heap, cart, id) # {}
    /\ Cardinality(FreeRefs(heap)) >= Len(cart)
    /\ \A i \in Matching(heap, cart, id) :
          heap[cart[i]].quantity + delta <= MaxQty
    /\ LET n == UpdatedCartQuantity(heap, cart, id, delta) IN Store(n.heap, n.cart, orders, flows)
    /\ UNCHANGED <<isCheckoutOpen, language, scalarWizardVars, lsOrders,
                   failures, catalogVars, newsVars, trVars>>

handleRemoveFromCart(id) ==
    /\ ShopReachable
    /\ Matching(heap, cart, id) # {}
    /\ LET n == RemovedFromCart(heap, cart, id) IN Store(n.heap, n.cart, orders, flows)
    /\ UNCHANGED <<isCheckoutOpen, language, scalarWizardVars, lsOrders,
                   failures, catalogVars, newsVars, trVars>>

\* ---------------------------------------------------------------- backend
\* JSON.stringify(this.orders): the stored text holds the line objects by
\* value.
Serialized(h, os) ==
    [i \in DOMAIN os |-> [os[i] EXCEPT !.items = Deref(h, os[i].items)]]

\* BackendService.getOrders: [...this.orders], read by value
getOrders == Serialized(heap, orders)

\* createOrder refusing an order whose id is already in the history
Unshifted_Dedup(os, order) ==
    IF \E i \in DOMAIN os : os[i].id = order.id THEN os ELSE <<order>> \o os

\* BackendService.createOrder after its delay: this.orders.unshift(order)
Unshifted(os, order) == <<order>> \o os

\* BackendService.clearOrders, called from the admin dashboard, which is
\* opened by a keyboard chord and lies above the checkout modal (z-80).
\* localStorage.setItem throws when `ok` is false, after this.orders was
\* assigned.
clearOrders(ok) ==
    /\ orders # <<>>
    /\ ok \/ failures < MaxFailures
    /\ Store(heap, cart, <<>>, flows)
    /\ lsOrders' = IF ok THEN <<Serialized(heap, <<>>)>> ELSE lsOrders
    /\ failures' = IF ok THEN failures ELSE failures + 1
    /\ UNCHANGED <<isCheckoutOpen, language, scalarWizardVars, catalogVars, newsVars, trVars>>

\* the fields of a Product
ProductFields == {"id", "price"}

\* { ...p, ...updates } for a Partial<Product>
Merged(p, updates) ==
    [k \in ProductFields |-> IF k \in DOMAIN updates THEN updates[k] ELSE p[k]]

\* Array.prototype.findIndex by id; 0 stands for -1
FindIndex(ps, id) ==
    IF \E i \in DOMAIN ps : ps[i].id = id
    THEN CHOOSE i \in DOMAIN ps :
            ps[i].id = id /\ \A j \in 1..(i - 1) : ps[j].id # id
    ELSE 0

\* an update that moves the edited product to the front
UpdatedProducts_ToFront(ps, index, updates) ==
    <<Merged(ps[index], updates)>>
      \o SubSeq(ps, 1, index - 1) \o SubSeq(ps, index + 1, Len(ps))

\* this.products after updateProduct found the id at `index`
UpdatedProducts(ps, index, updates) ==
    [ps EXCEPT ![index] = Merged(ps[index], updates)]

\* a removal that treats an unknown id as the last entry
DeletedProducts_DropsLast(ps, id) ==
    IF \E i \in DOMAIN ps : ps[i].id = id
    THEN LET Keep(p) == p.id # id IN SelectSeq(ps, Keep)
    ELSE SubSeq(ps, 1, Len(ps) - 1)

\* this.products.filter(p => p.id !== id)
DeletedProducts(ps, id) == LET Keep(p) == p.id # id IN SelectSeq(ps, Keep)

\* BackendService.getProducts: [...this.products]
getProducts == products

\* a constructor that takes the catalog from the store only
init_NoSeed(stored) ==
    [products |-> IF stored # <<>> THEN stored[1] ELSE <<>>,
     lsProducts |-> stored]

\* BackendService.init, the catalog part: `stored` is the value of
\* KEYS.PRODUCTS, <<>> when the key is absent. Any stored text is truthy,
\* "[]" included, so only an absent key is seeded from MOCK_PRODUCTS and
\* saved.
init(stored) ==
    [products |-> IF stored # <<>> THEN stored[1] ELSE MOCK_PRODUCTS,
     lsProducts |-> IF stored # <<>> THEN stored ELSE <<MOCK_PRODUCTS>>]

\* The page is loaded anew and the backend constructed from the store; taken
\* while nothing but the catalog has been touched, so that the rest of the
\* state is what a fresh page has.
Reload ==
    /\ heap = <<>> /\ orders = <<>> /\ lsOrders = <<>>
    /\ subscribers = <<>> /\ lsSubscribers = <<>> /\ subscribing = EmptyBag
    /\ ~isCheckoutOpen /\ language = "en" /\ calls = EmptyBag
    /\ products' = init(lsProducts).products
    /\ lsProducts' = init(lsProducts).lsProducts
    /\ UNCHANGED <<refVars, isCheckoutOpen, language, scalarWizardVars,
                   lsOrders, failures, newsVars, trVars>>

\* saveProducts after this.products was assigned; the write throws when `ok`
\* is false
SaveProducts(ps, ok) ==
    /\ ok \/ failures < MaxFailures
    /\ products' = ps
    /\ lsProducts' = IF ok THEN <<ps>> ELSE lsProducts
    /\ failures' = IF ok THEN failures ELSE failures + 1

\* BackendService.addProduct after its delay: the id is generated, the new
\* product is put in front
addProduct(price, id, ok) ==
    /\ Len(products) < MaxCatalog
    /\ SaveProducts(<<[id |-> id, price |-> price]>> \o products, ok)
    /\ UNCHANGED <<refVars, isCheckoutOpen, language, scalarWizardVars,
                   lsOrders, newsVars, trVars>>

\* BackendService.updateProduct after its delay; throws 'Product not found'
\* before anything is changed
updateProduct(id, updates, ok) ==
    /\ IF FindIndex(products, id) = 0
       THEN UNCHANGED <<products, lsProducts, failures>>
       ELSE SaveProducts(UpdatedProducts(products, FindIndex(products, id),
                                         updates), ok)
    /\ UNCHANGED <<refVars, isCheckoutOpen, language, scalarWizardVars,
                   lsOrders, newsVars, trVars>>

\* BackendService.deleteProduct after its delay
deleteProduct(id, ok) ==
    /\ SaveProducts(DeletedProducts(products, id), ok)
    /\ UNCHANGED <<refVars, isCheckoutOpen, language, scalarWizardVars,
                   lsOrders, newsVars, trVars>>

\* what the promise of updateProduct rejects with, NULL when it resolves
updateProductError(ps, id, ok) ==
    IF FindIndex(ps, id) = 0 THEN "Product not found"
    ELSE IF ok THEN NULL ELSE "QuotaExceededError"

\* what the promise of deleteProduct rejects with, NULL when it resolves:
\* the method has no branch on the id
deleteProductError(ps, id, ok) == IF ok THEN NULL ELSE "QuotaExceededError"

\* ------------------------------------------------------------- newsletter
\* a membership test that ignores letter case
Includes_IgnoringCase(subs, email) ==
    LET Lower(e) == IF e = "A@x.et" THEN "a@x.et" ELSE e
    IN \E i \in DOMAIN subs : Lower(subs[i]) = Lower(email)

\* this.subscribers.includes(email): strict equality of strings
Includes(subs, email) == \E i \in DOMAIN subs : subs[i] = email

\* BackendService.getSubscribers: [...this.subscribers]
getSubscribers == subscribers

\* handleSubscribe: the input holds an '@'; backend.addSubscriber is called
\* and enters its delay. The field is not cleared before the call returns,
\* so the button may be pressed again with the same address.
handleSubscribe(email) ==
    /\ ShopReachable
    /\ BagCardinality(subscribing) < MaxSubscribing
    /\ subscribing' = subscribing (+) SetToBag({email})
    /\ UNCHANGED <<refVars, isCheckoutOpen, language, scalarWizardVars,
                   lsOrders, failures, catalogVars, subscribers,
                   lsSubscribers, trVars>>

\* BackendService.addSubscriber after its delay: the test and the unshift
\* run without interruption. localStorage.setItem throws when `ok` is
\* false, after the address was put into this.subscribers; nothing is
\* written when the address is already there.
addSubscriber(email, ok) ==
    /\ BagIn(email, subscribing)
    /\ subscribing' = subscribing (-) SetToBag({email})
    /\ IF Includes(subscribers, email)
       THEN /\ ok
            /\ UNCHANGED <<subscribers, lsSubscribers, failures>>
       ELSE /\ ok \/ failures < MaxFailures
            /\ subscribers' = <<email>> \o subscribers
            /\ lsSubscribers' = IF ok THEN <<subscribers'>> ELSE lsSubscribers
            /\ failures' = IF ok THEN failures ELSE failures + 1
    /\ UNCHANGED <<refVars, isCheckoutOpen, language, scalarWizardVars,
                   lsOrders, catalogVars, trVars>>

\* ----------------------------------------------------------------- wizard
\* handleStartCheckout (the button is disabled while the cart is empty),
\* followed by CheckoutModal's effect on isOpen: a new order reference.
handleStartCheckout(ref) ==
    /\ ~isCheckoutOpen
    /\ cart # <<>>
    /\ isCheckoutOpen' = TRUE
    /\ orderRef' = ref
    /\ sessionSaved' = FALSE
    /\ UNCHANGED <<refVars, language, cardNumber, step, paymentMethod, cardProvider,
                   isProcessing, processingStatus, shippingData, errors,
                   alerted, lsOrders, failures,
                   catalogVars, newsVars, trVars>>

\* onClose (close button, backdrop, "return to shop"): not offered while
\* processing. CheckoutModal's effect on isOpen then resets the wizard.
\* The card form is rendered only in the payment step with the card method
\* chosen; its uncontrolled inputs are lost whenever it is unmounted.
onClose ==
    /\ isCheckoutOpen
    /\ ~isProcessing
    /\ isCheckoutOpen' = FALSE
    /\ step' = "shipping"
    /\ paymentMethod' = "credit_card"
    /\ isProcessing' = FALSE
    /\ errors' = {}
    /\ processingStatus' = ""
    /\ sessionSaved' = FALSE
    /\ cardNumber' = <<>>
    /\ UNCHANGED <<refVars, language, cardProvider, shippingData,
                   orderRef, alerted, lsOrders, failures,
                   catalogVars, newsVars, trVars>>

\* a submit of the shipping form that moves on without keeping the data
handleShippingSubmit_DropsData(data) ==
    /\ isCheckoutOpen
    /\ step = "shipping"
    /\ step' = "payment"
    /\ UNCHANGED <<refVars, isCheckoutOpen, language, cardNumber, paymentMethod,
                   cardProvider, isProcessing, processingStatus, orderRef,
                   shippingData, errors, alerted, sessionSaved, lsOrders,
                   failures, catalogVars, newsVars, trVars>>

\* handleShippingSubmit: setShippingData({...}), setStep('payment')
handleShippingSubmit(data) ==
    /\ isCheckoutOpen
    /\ step = "shipping"
    /\ shippingData' = data
    /\ step' = "payment"
    /\ UNCHANGED <<refVars, isCheckoutOpen, language, cardNumber, paymentMethod,
                   cardProvider, isProcessing, processingStatus, orderRef,
                   errors, alerted, sessionSaved, lsOrders, failures,
                   catalogVars, newsVars, trVars>>

\* The controls of the payment panel lie under the processing overlay
\* (absolute inset-0, z-50) while isProcessing, and the submit buttons are
\* disabled.
PaymentPanelReachable ==
    isCheckoutOpen /\ step = "payment" /\ ~isProcessing

\* the Back button of the payment panel: setStep('shipping')
Back ==
    /\ PaymentPanelReachable
    /\ step' = "shipping"
    /\ cardNumber' = <<>>
    /\ UNCHANGED <<refVars, isCheckoutOpen, language, paymentMethod,
                   cardProvider, isProcessing, processingStatus,
                   shippingData, orderRef, errors, alerted,
                   sessionSaved, lsOrders, failures,
                   catalogVars, newsVars, trVars>>

setPaymentMethod(m) ==
    /\ PaymentPanelReachable
    /\ m # paymentMethod
    /\ paymentMethod' = m
    /\ cardNumber' = <<>>
    /\ UNCHANGED <<refVars, isCheckoutOpen, language, step, cardProvider,
                   isProcessing, processingStatus, shippingData, orderRef,
                   errors, alerted, sessionSaved, lsOrders, failures,
                   catalogVars, newsVars, trVars>>

setCardProvider(p) ==
    /\ PaymentPanelReachable
    /\ paymentMethod = "credit_card"
    /\ p # cardProvider
    /\ cardProvider' = p
    /\ UNCHANGED <<refVars, isCheckoutOpen, language, cardNumber, step, paymentMethod,
                   isProcessing, processingStatus, shippingData, orderRef,
                   errors, alerted, sessionSaved, lsOrders, failures,
                   catalogVars, newsVars, trVars>>

\* What the handlers of one render close over: a payment flow started from
\* that render keeps these values until it ends, whatever the state becomes.
Closure ==
    [cart |-> cart,
     subtotal |-> Subtotal(heap, cart),
     total |-> Total(heap, cart),
     shippingData |-> shippingData,
     paymentMethod |-> paymentMethod,
     cardProvider |-> cardProvider,
     orderRef |-> orderRef,
     language |-> language]

\* an Order value that is created as already shipped
newOrder_Shipped(c) ==
    [id |-> c.orderRef,
     items |-> c.cart,
     subtotal |-> c.subtotal,
     shippingCost |-> shippingCost,
     duties |-> importDuties,
     total |-> c.total,
     shippingDetails |-> c.shippingData,
     paymentMethod |-> c.paymentMethod,
     cardProvider |-> IF c.paymentMethod = "credit_card"
                      THEN c.cardProvider ELSE NULL,
     language |-> c.language,
     status |-> "shipped"]

\* an Order value that records the selected card provider on every branch
newOrder_KeepsProvider(c) ==
    [id |-> c.orderRef,
     items |-> c.cart,
     subtotal |-> c.subtotal,
     shippingCost |-> shippingCost,
     duties |-> importDuties,
     total |-> c.total,
     shippingDetails |-> c.shippingData,
     paymentMethod |-> c.paymentMethod,
     cardProvider |-> c.cardProvider,
     language |-> c.language,
     status |-> "pending"]

\* completeOrder: the Order value built from the closure (date left out)
newOrder(c) ==
    [id |-> c.orderRef,
     items |-> c.cart,
     subtotal |-> c.subtotal,
     shippingCost |-> shippingCost,
     duties |-> importDuties,
     total |-> c.total,
     shippingDetails |-> c.shippingData,
     paymentMethod |-> c.paymentMethod,
     cardProvider |-> IF c.paymentMethod = "credit_card"
                      THEN c.cardProvider ELSE NULL,
     language |-> c.language,
     status |-> "pending"]

\* every payment adds one record to this.orders, also when the write throws
RoomForOrder == Len(orders) < MaxOrders

StartFlow(pc, status) ==
    /\ RoomForOrder
    /\ isProcessing' = TRUE
    /\ processingStatus' = status
    /\ Store(heap, cart, orders, flows \cup {[pc |-> pc, closure |-> Closure]})
    /\ alerted' = FALSE

handlePayPalFlow ==
    /\ PaymentPanelReachable
    /\ paymentMethod = "paypal"
    /\ StartFlow("paypal_open", "Connecting to PayPal Secure Gateway...")
    /\ UNCHANGED <<isCheckoutOpen, language, cardNumber, step, paymentMethod,
                   cardProvider, shippingData, orderRef, errors,
                   sessionSaved, lsOrders, failures,
                   catalogVars, newsVars, trVars>>

\* /[^0-9-\s]+/.test(value): some character is no digit, hyphen or space
HasForeignChar(value) ==
    \E i \in DOMAIN value : value[i] \notin DigitCodes \cup {45, 32}

\* value.replace(/\D/g, "")
DigitsOf(value) == LET IsDigit(ch) == ch \in DigitCodes IN SelectSeq(value, IsDigit)

\* the loop of isValidCreditCard, from index n (1-based) down to the first
\* character: nDigit is doubled at every second step, 9 taken off above 9
RECURSIVE LuhnLoop(_, _, _, _)
LuhnLoop(newValue, n, nCheck, bEven) ==
    IF n < 1 THEN nCheck
    ELSE LET parsed == newValue[n] - 48
             nDigit == IF bEven
                       THEN IF parsed * 2 > 9 THEN parsed * 2 - 9 ELSE parsed * 2
                       ELSE parsed
         IN LuhnLoop(newValue, n - 1, nCheck + nDigit, ~bEven)

\* a validator that checks the length only
isValidCreditCard_LengthOnly(value) ==
    /\ ~HasForeignChar(value)
    /\ Len(DigitsOf(value)) >= 13
    /\ Len(DigitsOf(value)) <= 19

\* isValidCreditCard
isValidCreditCard(value) ==
    IF HasForeignChar(value) THEN FALSE
    ELSE LET newValue == DigitsOf(value)
         IN IF Len(newValue) < 13 \/ Len(newValue) > 19 THEN FALSE
            ELSE LuhnLoop(newValue, Len(newValue), 0, FALSE) % 10 = 0

\* the user fills the empty cardNumber input of the card form
TypeCardNumber(value) ==
    /\ PaymentPanelReachable
    /\ paymentMethod = "credit_card"
    /\ cardNumber = <<>>
    /\ cardNumber' = value
    /\ UNCHANGED <<refVars, isCheckoutOpen, language, step, paymentMethod,
                   cardProvider, isProcessing, processingStatus,
                   shippingData, orderRef, errors, alerted,
                   sessionSaved, lsOrders, failures,
                   catalogVars, newsVars, trVars>>

\* the user empties the cardNumber input
ClearCardNumber ==
    /\ PaymentPanelReachable
    /\ paymentMethod = "credit_card"
    /\ cardNumber # <<>>
    /\ cardNumber' = <<>>
    /\ UNCHANGED <<refVars, isCheckoutOpen, language, step, paymentMethod,
                   cardProvider, isProcessing, processingStatus,
                   shippingData, orderRef, errors, alerted,
                   sessionSaved, lsOrders, failures,
                   catalogVars, newsVars, trVars>>

\* a validation that stops at the first field that fails
CardErrors_FailFast(cardOk, expiryOk, cvcOk) ==
    IF ~cardOk THEN {"cardNumber"}
    ELSE IF ~expiryOk THEN {"expiry"}
    ELSE IF ~cvcOk THEN {"cvc"}
    ELSE {}

\* the three checks of handleCreditCardFlow, each on its own field
CardErrors(cardOk, expiryOk, cvcOk) ==
    (IF cardOk THEN {} ELSE {"cardNumber"})
      \cup (IF expiryOk THEN {} ELSE {"expiry"})
      \cup (IF cvcOk THEN {} ELSE {"cvc"})

handleCreditCardFlow(cardOk, expiryOk, cvcOk) ==
    /\ PaymentPanelReachable
    /\ paymentMethod = "credit_card"
    /\ LET newErrors == CardErrors(cardOk, expiryOk, cvcOk)
       IN IF newErrors # {}
          THEN /\ errors' = newErrors
               /\ UNCHANGED <<refVars, isProcessing, processingStatus,
                              alerted>>
          ELSE /\ errors' = {}
               /\ StartFlow("card_encrypt", "Encrypting data...")
    /\ UNCHANGED <<isCheckoutOpen, language, cardNumber, step, paymentMethod,
                   cardProvider, shippingData, orderRef, sessionSaved,
                   lsOrders, failures,
                   catalogVars, newsVars, trVars>>

\* handleGeneralSubmit, the submit handler of the bank-transfer form
handleGeneralSubmit ==
    /\ PaymentPanelReachable
    /\ paymentMethod = "bank_transfer"
    /\ StartFlow("bank_register", "Registering order...")
    /\ UNCHANGED <<isCheckoutOpen, language, cardNumber, step, paymentMethod,
                   cardProvider, shippingData, orderRef, errors,
                   sessionSaved, lsOrders, failures,
                   catalogVars, newsVars, trVars>>

\* completeOrder up to its await: returns early without shipping data,
\* otherwise hands newOrder to saveOrder / backend.createOrder
completeOrderCalled(f) ==
    IF f.closure.shippingData = NULL
    THEN {}
    ELSE {[pc |-> "saving", closure |-> f.closure]}

\* a timer of a flow fires
TimerFires(f) ==
    /\ f \in flows
    /\ f.pc # "saving"
    /\ \/ /\ f.pc = "paypal_open"
          /\ processingStatus' = "Waiting for payment confirmation..."
          /\ Store(heap, cart, orders,
                   (flows \ {f}) \cup {[f EXCEPT !.pc = "paypal_wait"]})
       \/ /\ f.pc = "card_encrypt"
          /\ processingStatus' = "Contacting issuing bank..."
          /\ Store(heap, cart, orders,
                   (flows \ {f}) \cup {[f EXCEPT !.pc = "card_bank"]})
       \/ /\ f.pc = "card_bank"
          /\ processingStatus' = "Verifying transaction..."
          /\ Store(heap, cart, orders,
                   (flows \ {f}) \cup {[f EXCEPT !.pc = "card_verify"]})
       \/ /\ f.pc \in {"paypal_wait", "card_verify", "bank_register"}
          /\ Store(heap, cart, orders,
                   (flows \ {f}) \cup completeOrderCalled(f))
          /\ UNCHANGED processingStatus
    /\ UNCHANGED <<isCheckoutOpen, language, cardNumber, step, paymentMethod,
                   cardProvider, isProcessing, shippingData, orderRef,
                   errors, alerted, sessionSaved, lsOrders, failures,
                   catalogVars, newsVars, trVars>>

\* handleCheckoutComplete: setCart([])
CartAfterComplete(c) == <<>>

\* completeOrder after saveOrder resolved: the wizard's state, and the cart
\* that onComplete leaves
completeOrderSucceeded(c) ==
    [isProcessing |-> FALSE, processingStatus |-> "",
     step |-> "confirmation", cart |-> CartAfterComplete(c),
     alerted |-> alerted]

\* a catch branch that moves on to the confirmation
completeOrderFailed_Confirms(c) ==
    [isProcessing |-> FALSE, processingStatus |-> "",
     step |-> "confirmation", cart |-> c, alerted |-> TRUE]

\* a catch branch that leaves the processing overlay on
completeOrderFailed_StillProcessing(c) ==
    [isProcessing |-> TRUE, processingStatus |-> processingStatus,
     step |-> step, cart |-> c, alerted |-> TRUE]

\* a catch branch that sends the user back to the shipping form
completeOrderFailed_ToShipping(c) ==
    [isProcessing |-> FALSE, processingStatus |-> "",
     step |-> "shipping", cart |-> c, alerted |-> TRUE]

\* a catch branch that empties the cart although nothing was saved
completeOrderFailed_ClearsCart(c) ==
    [isProcessing |-> FALSE, processingStatus |-> "",
     step |-> step, cart |-> <<>>, alerted |-> TRUE]

\* completeOrder's catch branch
completeOrderFailed(c) ==
    [isProcessing |-> FALSE, processingStatus |-> "",
     step |-> step, cart |-> c, alerted |-> TRUE]

\* BackendService.createOrder after its delay, and the continuation of
\* completeOrder that the settled promise runs. localStorage.setItem throws
\* when `ok` is false, after the order was put into this.orders.
createOrderSettles(f, ok) ==
    /\ f \in flows
    /\ f.pc = "saving"
    /\ ok \/ failures < MaxFailures
    /\ LET os == Unshifted(orders, newOrder(f.closure))
           w == IF ok THEN completeOrderSucceeded(cart)
                ELSE completeOrderFailed(cart)
       IN /\ Store(heap, w.cart, os, flows \ {f})
          /\ lsOrders' = IF ok THEN <<Serialized(heap, os)>> ELSE lsOrders
          /\ isProcessing' = w.isProcessing
          /\ processingStatus' = w.processingStatus
          /\ step' = w.step
          /\ alerted' = w.alerted
    /\ failures' = IF ok THEN failures ELSE failures + 1
    /\ sessionSaved' = (sessionSaved \/ ok)
    /\ cardNumber' = IF ok THEN <<>> ELSE cardNumber
    /\ UNCHANGED <<isCheckoutOpen, language, paymentMethod, cardProvider,
                   shippingData, orderRef, errors, catalogVars, newsVars, trVars>>

\* ------------------------------------------------------------ translation
\* Strings are sequences of UTF-16 code units; <<>> stands for null / ''.
Aa == <<65, 97>>
BB == <<66, 66>>
Texts == {Aa, BB}
Languages == {"en", "am", "fr"}
NoKey == ""
Comps == {"c1", "c2"}
\* the translationKey of a use site: c1 passes the key of a seeded product,
\* which the dictionary has for some languages; c2 passes none
KeysOf(c) == IF c = "c1" THEN {"k1"} ELSE {NoKey}

\* 32-bit integers are kept as a signed value; the arithmetic is done on
\* the two 16-bit halves.
Half == 65536
Signed32(hi, lo) == (IF hi >= 32768 THEN hi - Half ELSE hi) * Half + lo

\* one round of simpleHash: hash = ((hash << 5) - hash) + char, then
\* hash = hash & hash (ToInt32), which is 31 * hash + char modulo 2^32
HashStep(hash, char) ==
    LET lo == hash % Half
        hi == (hash \div Half) % Half
        l2 == 31 * lo + char
        h2 == 31 * hi + (l2 \div Half)
    IN Signed32(h2 % Half, l2 % Half)

RECURSIVE HashFrom(_, _)
HashFrom(hash, str) ==
    IF str = <<>> THEN hash
    ELSE HashFrom(HashStep(hash, Head(str)), Tail(str))
simpleHash(str) == HashFrom(0, str)

\* `tr_v2_${language}_${contentHash}`
CacheKey(lang, value) == <<lang, simpleHash(value)>>

\* what the remote service answers for a text when it translates it
LangMark(lang) == IF lang = "am" THEN 35 ELSE IF lang = "fr" THEN 36 ELSE 33
Translated(value, lang) == Append(value, LangMark(lang))

\* translateText: null on failure or empty answer, else the trimmed answer,
\* which may be the text itself
RemoteResults(value, lang) == {<<>>, value, Translated(value, lang)}

\* i18n's static dictionary: key "k1" with English source Aa, translated
\* into "am" only
DictionarySource == [k1 |-> Aa]
Dictionary(lang) == IF lang = "am" THEN [k1 |-> Translated(Aa, "am")] ELSE <<>>

\* i18n.getExactTranslation(key) in the language `lang`; <<>> for no match
getExactTranslation(lang, key) ==
    IF key \in DOMAIN Dictionary(lang) THEN Dictionary(lang)[key] ELSE <<>>

\* i18n.findBestTranslation(value): reverse lookup by English source text
findBestTranslation(lang, value) ==
    IF \E k \in DOMAIN Dictionary(lang) : DictionarySource[k] = value
    THEN Dictionary(lang)[CHOOSE k \in DOMAIN Dictionary(lang) :
                            DictionarySource[k] = value]
    ELSE <<>>

\* a cache read that never finds an entry
Cached_Miss(ch, lang, value) == <<>>

\* localStorage.getItem(cacheKey); <<>> for null
Cached(ch, lang, value) ==
    IF CacheKey(lang, value) \in DOMAIN ch THEN ch[CacheKey(lang, value)]
    ELSE <<>>

Unmounted ==
    [mounted |-> FALSE, value |-> <<>>, key |-> NoKey, content |-> <<>>,
     loading |-> FALSE]

\* a component's state at the start of a run of its effect, with the record
\* of what the run does, and the state alone again
Traced(st) ==
    [mounted |-> st.mounted, value |-> st.value, key |-> st.key,
     content |-> st.content, loading |-> st.loading,
     tiers |-> <<>>, issued |-> FALSE]
Untraced(r) ==
    [mounted |-> r.mounted, value |-> r.value, key |-> r.key,
     content |-> r.content, loading |-> r.loading]

\* steps 2 to 5 with the cache read before the translation memory
EffectLookups_CacheFirst(st, lang, ch) ==
    IF st.key # NoKey /\ getExactTranslation(lang, st.key) # <<>>
    THEN [st EXCEPT !.content = getExactTranslation(lang, st.key),
                    !.loading = FALSE,
                    !.tiers = <<"dictionary">>, !.issued = FALSE]
    ELSE LET t2 == IF st.key # NoKey THEN <<"dictionary">> ELSE <<>>
         IN IF Cached(ch, lang, st.value) # <<>>
            THEN [st EXCEPT !.content = Cached(ch, lang, st.value),
                            !.loading = FALSE,
                            !.tiers = Append(t2, "cache"), !.issued = FALSE]
            ELSE IF findBestTranslation(lang, st.value) # <<>>
            THEN [st EXCEPT !.content = findBestTranslation(lang, st.value),
                            !.loading = FALSE,
                            !.tiers = t2 \o <<"cache", "memory">>,
                            !.issued = FALSE]
            ELSE [st EXCEPT !.loading = TRUE,
                            !.tiers = t2 \o <<"cache", "memory">>,
                            !.issued = TRUE]

\* The effect of AutoTranslatedText, steps 2 to 5: dictionary by key,
\* translation memory, cache, remote call. `tiers` lists the lookups the run
\* made, in order; `issued` tells whether it called translateText.
EffectLookups(st, lang, ch) ==
    IF st.key # NoKey /\ getExactTranslation(lang, st.key) # <<>>
    THEN [st EXCEPT !.content = getExactTranslation(lang, st.key),
                    !.loading = FALSE,
                    !.tiers = <<"dictionary">>, !.issued = FALSE]
    ELSE LET t2 == IF st.key # NoKey THEN <<"dictionary">> ELSE <<>>
         IN IF findBestTranslation(lang, st.value) # <<>>
            THEN [st EXCEPT !.content = findBestTranslation(lang, st.value),
                            !.loading = FALSE,
                            !.tiers = Append(t2, "memory"), !.issued = FALSE]
            ELSE IF Cached(ch, lang, st.value) # <<>>
            THEN [st EXCEPT !.content = Cached(ch, lang, st.value),
                            !.loading = FALSE,
                            !.tiers = t2 \o <<"memory", "cache">>,
                            !.issued = FALSE]
            ELSE [st EXCEPT !.loading = TRUE,
                            !.tiers = t2 \o <<"memory", "cache">>,
                            !.issued = TRUE]

\* the effect without its first step
Effect_NoSourceLanguageStep(st, lang, ch) ==
    IF st.value = <<>> THEN [st EXCEPT !.tiers = <<>>, !.issued = FALSE]
    ELSE EffectLookups(st, lang, ch)

\* The effect of AutoTranslatedText on [language, value, translationKey]:
\* the component's next state.
Effect(st, lang, ch) ==
    IF st.value = <<>> THEN [st EXCEPT !.tiers = <<>>, !.issued = FALSE]
    ELSE IF lang = "en"
    THEN [st EXCEPT !.content = st.value, !.loading = FALSE,
                    !.tiers = <<>>, !.issued = FALSE]
    ELSE EffectLookups(st, lang, ch)

\* the call a run of the effect issued: the closure of its .then handler
CallOf(c, st, lang) ==
    [comp |-> c, value |-> st.value, lang |-> lang, mounted |-> TRUE]

\* the effects of the components in `cs` run in one commit
RECURSIVE NewCalls(_, _, _)
NewCalls(cs, after, lang) ==
    IF cs = {} THEN EmptyBag
    ELSE LET c == CHOOSE x \in cs : TRUE
         IN (IF after[c].issued THEN SetToBag({CallOf(c, after[c], lang)})
             ELSE EmptyBag)
              (+) NewCalls(cs \ {c}, after, lang)

RunEffects(cs, before, lang) ==
    LET ran == [c \in cs |-> Effect(Traced(before[c]), lang, cache)]
    IN /\ BagCardinality(calls) + Cardinality({c \in cs : ran[c].issued})
            <= MaxCalls
       /\ comps' = [c \in Comps |->
                      IF c \in cs THEN Untraced(ran[c]) ELSE before[c]]
       /\ calls' = calls (+) NewCalls(cs, ran, lang)
       /\ lastRun' = [c \in cs |->
                        [tiers |-> ran[c].tiers, issued |-> ran[c].issued]]

\* a component is rendered for the first time: useState(value), then its
\* effects run
Mount(c, value, key) ==
    /\ ~comps[c].mounted
    /\ RunEffects({c}, [comps EXCEPT ![c] =
                          [mounted |-> TRUE, value |-> value, key |-> key,
                           content |-> value, loading |-> FALSE]], language)
    /\ UNCHANGED <<cache, language, shopVars>>

\* the parent renders a mounted component with other props
SetProps(c, value, key) ==
    /\ comps[c].mounted
    /\ <<value, key>> # <<comps[c].value, comps[c].key>>
    /\ RunEffects({c}, [comps EXCEPT ![c].value = value, ![c].key = key],
                  language)
    /\ UNCHANGED <<cache, language, shopVars>>

\* the calls in flight once component c's mountedRef is false
Orphaned(b, c) ==
    LET moved(r) == IF r.comp = c THEN [r EXCEPT !.mounted = FALSE] ELSE r
        copies(r) == IF r \in DOMAIN b THEN b[r] ELSE 0
    IN [x \in {moved(r) : r \in DOMAIN b} |->
          copies(x) + (IF x.comp = c THEN copies([x EXCEPT !.mounted = TRUE])
                       ELSE 0)]

\* the cleanup of the mount effect: mountedRef.current = false, seen by the
\* handlers of the calls this component issued
Unmount(c) ==
    /\ comps[c].mounted
    /\ comps' = [comps EXCEPT ![c] = Unmounted]
    /\ calls' = Orphaned(calls, c)
    /\ lastRun' = <<>>
    /\ UNCHANGED <<cache, language, shopVars>>

\* i18n.setLanguage: every mounted component's effect runs again
setLanguage(lang) ==
    /\ lang # language
    /\ language' = lang
    /\ RunEffects({c \in Comps : comps[c].mounted}, comps, lang)
    /\ UNCHANGED <<cache, shopVars>>

\* a .then handler that caches every non-empty answer
Resolved_CachesEcho(st, ch, call, result) ==
    IF ~call.mounted THEN [comp |-> st, cache |-> ch]
    ELSE IF result # <<>>
    THEN [comp |-> [st EXCEPT !.content = result, !.loading = FALSE],
          cache |-> [k \in DOMAIN ch \cup {CacheKey(call.lang, call.value)} |->
                       IF k = CacheKey(call.lang, call.value) THEN result
                       ELSE ch[k]]]
    ELSE [comp |-> [st EXCEPT !.content = call.value, !.loading = FALSE],
          cache |-> ch]

\* a .then handler that caches the fallback it shows
Resolved_CachesFallback(st, ch, call, result) ==
    IF ~call.mounted THEN [comp |-> st, cache |-> ch]
    ELSE LET shown == IF result # <<>> THEN result ELSE call.value
         IN [comp |-> [st EXCEPT !.content = shown, !.loading = FALSE],
             cache |-> [k \in DOMAIN ch \cup {CacheKey(call.lang, call.value)} |->
                          IF k = CacheKey(call.lang, call.value) THEN shown
                          ELSE ch[k]]]

\* the .then handler of translateText(value, language)
Resolved(st, ch, call, result) ==
    IF ~call.mounted THEN [comp |-> st, cache |-> ch]
    ELSE IF result # <<>> /\ result # call.value
    THEN [comp |-> [st EXCEPT !.content = result, !.loading = FALSE],
          cache |-> [k \in DOMAIN ch \cup {CacheKey(call.lang, call.value)} |->
                       IF k = CacheKey(call.lang, call.value) THEN result
                       ELSE ch[k]]]
    ELSE [comp |-> [st EXCEPT !.content = call.value, !.loading = FALSE],
          cache |-> ch]

RemoteResolves(call, result) ==
    /\ BagIn(call, calls)
    /\ result \in RemoteResults(call.value, call.lang)
    /\ LET n == Resolved(comps[call.comp], cache, call, result)
       IN /\ comps' = [comps EXCEPT ![call.comp] = n.comp]
          /\ cache' = n.cache
    /\ calls' = calls (-) SetToBag({call})
    /\ lastRun' = <<>>
    /\ UNCHANGED <<language, shopVars>>

\* ------------------------------------------------------------------ Spec
Init ==
    /\ heap = <<>>
    /\ cart = <<>>
    /\ isCheckoutOpen = FALSE
    /\ language = "en"
    /\ step = "shipping"
    /\ paymentMethod = "credit_card"
    /\ cardProvider = "visa"
    /\ isProcessing = FALSE
    /\ processingStatus = ""
    /\ shippingData = NULL
    /\ orderRef = ""
    /\ errors = {}
    /\ cardNumber = <<>>
    /\ flows = {}
    /\ alerted = FALSE
    /\ sessionSaved = FALSE
    /\ orders = <<>>
    /\ lsOrders = <<>>
    /\ failures = 0
    /\ products = init(<<>>).products
    /\ lsProducts = init(<<>>).lsProducts
    /\ subscribers = <<>>
    /\ lsSubscribers = <<>>
    /\ subscribing = EmptyBag
    /\ comps = [c \in Comps |-> Unmounted]
    /\ cache = <<>>
    /\ calls = EmptyBag
    /\ lastRun = <<>>

\* the wizard's own steps, common to the specifications
Navigation ==
    \/ onClose
    \/ \E data \in ShippingInputs : handleShippingSubmit(data)
    \/ Back
    \/ \E m \in PaymentMethods : setPaymentMethod(m)

\* Checkout and order history: every payment branch, failing writes, the
\* admin's clearOrders; the cart holds one item of one product.
Next ==
    \/ \E product \in {p \in Products : p.id = "p1"} :
          cart = <<>> /\ handleAddToCart(product)
    \/ handleRemoveFromCart("p1")
    \/ \E ref \in OrderRefs : handleStartCheckout(ref)
    \/ Navigation
    \/ \E p \in CardProviders : setCardProvider(p)
    \/ handlePayPalFlow
    \/ \E a, b, c \in BOOLEAN : handleCreditCardFlow(a, b, c)
    \/ handleGeneralSubmit
    \/ \E f \in flows : TimerFires(f)
    \/ \E f \in flows, ok \in BOOLEAN : createOrderSettles(f, ok)
    \/ \E ok \in BOOLEAN : clearOrders(ok)

Spec == Init /\ [][Next]_vars

\* The timers of the payment flows fire and the createOrder call settles:
\* a timer that is set fires after its delay, and createOrder resolves or
\* rejects after its own.
TimersFire == \E f \in flows : TimerFires(f)
CreateOrderSettles == \E f \in flows, ok \in BOOLEAN : createOrderSettles(f, ok)

\* Checkout on every payment branch with failing writes, while the history
\* holds fewer than MaxCartOrders orders; the CVC holds a well-formed
\* value.
NextLive ==
    \/ \E product \in {p \in Products : p.id = "p1"} :
          cart = <<>> /\ handleAddToCart(product)
    \/ \E ref \in OrderRefs : handleStartCheckout(ref)
    \/ Navigation
    \/ Len(orders) < MaxCartOrders /\ handlePayPalFlow
    \/ /\ Len(orders) < MaxCartOrders
       /\ \E a, b \in BOOLEAN : handleCreditCardFlow(a, b, TRUE)
    \/ Len(orders) < MaxCartOrders /\ handleGeneralSubmit
    \/ TimersFire
    \/ CreateOrderSettles

SpecLive ==
    Init /\ [][NextLive]_vars /\ WF_vars(TimersFire) /\ WF_vars(CreateOrderSettles)

\* The cart: every product, every delta; checkout by bank transfer.
NextCart ==
    \/ \E product \in Products : handleAddToCart(product)
    \/ \E id \in ProductIds, delta \in Deltas : handleUpdateCartQuantity(id, delta)
    \/ \E id \in ProductIds : handleRemoveFromCart(id)
    \/ \E ref \in OrderRefs : handleStartCheckout(ref)
    \/ Navigation
    \/ Len(orders) < MaxCartOrders /\ handleGeneralSubmit
    \/ \E f \in flows : TimerFires(f)
    \/ \E f \in flows : createOrderSettles(f, TRUE)
    \/ clearOrders(TRUE)

SpecCart == Init /\ [][NextCart]_vars

\* Stored orders against later cart and catalog operations: one product in
\* the cart, payment by bank transfer, failing writes, the admin's edits.
NextSnapshot ==
    \/ \E product \in {p \in Products : p.id = "p1"} : handleAddToCart(product)
    \/ \E delta \in Deltas : handleUpdateCartQuantity("p1", delta)
    \/ handleRemoveFromCart("p1")
    \/ \E ref \in OrderRefs : handleStartCheckout(ref)
    \/ Navigation
    \/ handleGeneralSubmit
    \/ \E f \in flows : TimerFires(f)
    \/ \E f \in flows, ok \in BOOLEAN : createOrderSettles(f, ok)
    \/ \E price \in Prices, id \in GeneratedIds, ok \in BOOLEAN :
          addProduct(price, id, ok)
    \/ \E price \in Prices, ok \in BOOLEAN :
          updateProduct("p1", [price |-> price], ok)
    \/ \E ok \in BOOLEAN : deleteProduct("p1", ok)
    \/ clearOrders(TRUE)

SpecSnapshot == Init /\ [][NextSnapshot]_vars

\* The card form: the user reaches the payment step, fills the card number
\* and submits; expiry and CVC hold well-formed values. The input is
\* `required`, so the browser submits only a non-empty card number.
NextCardForm ==
    \/ \E product \in {p \in Products : p.id = "p1"} :
          cart = <<>> /\ handleAddToCart(product)
    \/ \E ref \in OrderRefs : handleStartCheckout(ref)
    \/ \E data \in ShippingInputs : handleShippingSubmit(data)
    \/ /\ cardNumber = <<>>
       /\ \/ \E n \in 1..MaxCardLen :
                \E value \in CardInputs(Zeros, n) : TypeCardNumber(value)
          \/ \E value \in CardInputs(TestCard, Len(TestCard)) :
                TypeCardNumber(value)
    \/ ClearCardNumber
    \/ /\ cardNumber # <<>>
       /\ handleCreditCardFlow(isValidCreditCard(cardNumber), TRUE, TRUE)

SpecCardForm == Init /\ [][NextCardForm]_vars

\* The newsletter: subscriptions that overlap in time, failing writes.
NextNews ==
    \/ \E email \in Emails : handleSubscribe(email)
    \/ \E email \in Emails, ok \in BOOLEAN : addSubscriber(email, ok)

SpecNews == Init /\ [][NextNews]_vars

\* The first order of a history, on every payment branch, from carts of
\* several lines and quantities; the write may fail.
NextOrders ==
    \/ \E product \in Products : handleAddToCart(product)
    \/ \E id \in ProductIds, delta \in Deltas : handleUpdateCartQuantity(id, delta)
    \/ \E id \in ProductIds : handleRemoveFromCart(id)
    \/ \E ref \in OrderRefs : handleStartCheckout(ref)
    \/ Navigation
    \/ \E p \in CardProviders : setCardProvider(p)
    \/ orders = <<>> /\ handlePayPalFlow
    \/ orders = <<>> /\ handleCreditCardFlow(TRUE, TRUE, TRUE)
    \/ orders = <<>> /\ handleGeneralSubmit
    \/ TimersFire
    \/ CreateOrderSettles

SpecOrders == Init /\ [][NextOrders]_vars

\* The catalog as the admin dashboard edits it: every id, known or not,
\* failing writes.
NextCatalog ==
    \/ \E price \in Prices, id \in GeneratedIds, ok \in BOOLEAN :
          addProduct(price, id, ok)
    \/ \E id \in CatalogIds, updates \in Updates, ok \in BOOLEAN :
          updateProduct(id, updates, ok)
    \/ \E id \in CatalogIds, ok \in BOOLEAN : deleteProduct(id, ok)
    \/ Reload

SpecCatalog == Init /\ [][NextCatalog]_vars

\* The translation pipeline: two components, their props, the language,
\* the remote answers.
NextTr ==
    \/ \E c \in Comps, v \in Texts : \E k \in KeysOf(c) : Mount(c, v, k)
    \/ \E c \in Comps, v \in Texts : \E k \in KeysOf(c) : SetProps(c, v, k)
    \/ \E c \in Comps : Unmount(c)
    \/ \E lang \in Languages : setLanguage(lang)
    \/ \E call \in BagToSet(calls),
          result \in Texts \cup {<<>>}
                     \cup {Translated(v, l) : v \in Texts, l \in Languages} :
          RemoteResolves(call, result)

SpecTr == Init /\ [][NextTr]_vars

\* ---------------------------------------------------------------- claims
\* the ids of the cart's lines, in order
CartIds == [i \in DOMAIN cart |-> heap[cart[i]].id]

\* the quantity the cart holds of a product: 0 if it has no line
CartQuantity(h, c, id) ==
    IF Matching(h, c, id) = {} THEN 0
    ELSE h[c[CHOOSE i \in Matching(h, c, id) : TRUE]].quantity

\* what the cart is worth, product by product
RECURSIVE ValueOf(_, _, _)
ValueOf(h, c, ps) ==
    IF ps = {} THEN 0
    ELSE LET p == CHOOSE q \in ps : TRUE
         IN p.price * CartQuantity(h, c, p.id) + ValueOf(h, c, ps \ {p})

\* C1: in every reachable cart the checkout total is the sum over the cart
\* lines of unit price x quantity plus 25.00 shipping plus 12.50 duties; one
\* item priced 100.00 gives subtotal 100.00 and total 137.50.
C1_TotalIsSumPlusFees ==
    /\ Total(heap, cart) = ValueOf(heap, cart, Products) + 2500 + 1250
    /\ Deref(heap, cart) = <<[id |-> "p1", price |-> 10000, quantity |-> 1]>>
          => Subtotal(heap, cart) = 10000 /\ Total(heap, cart) = 13750

C1_Witness ==
    /\ Len(cart) = 2
    /\ \E i \in DOMAIN cart : heap[cart[i]].quantity >= 2
    /\ Total(heap, cart) > 13750

\* C2: the cart never holds two lines with the same product id; adding a
\* product whose id is in the cart adds 1 to that line's quantity and adds
\* no line.
C2_OneLinePerProduct ==
    /\ [](\A i, j \in DOMAIN cart :
            heap[cart[i]].id = heap[cart[j]].id => i = j)
    /\ [][\A product \in Products :
            (handleAddToCart(product)
               /\ Matching(heap, cart, product.id) # {})
            => /\ Len(cart') = Len(cart)
               /\ CartQuantity(heap', cart', product.id)
                    = CartQuantity(heap, cart, product.id) + 1]_vars

C2_Witness ==
    /\ Len(cart) = 2
    /\ \A i \in DOMAIN cart : heap[cart[i]].quantity = 2
    /\ orders # <<>>

\* C3: every cart line has quantity >= 1; an update whose delta would take a
\* quantity below 1 leaves it at 1 and keeps the line; a line leaves the
\* cart only by an explicit remove or when checkout completion empties the
\* cart.
C3_QuantityFloor ==
    /\ [](\A i \in DOMAIN cart : heap[cart[i]].quantity >= 1)
    /\ [][\A id \in ProductIds, delta \in Deltas :
            handleUpdateCartQuantity(id, delta)
            => /\ [i \in DOMAIN cart' |-> heap'[cart'[i]].id] = CartIds
               /\ CartQuantity(heap, cart, id) + delta < 1
                    => CartQuantity(heap', cart', id) = 1]_vars
    /\ [][(\E id \in Range(CartIds) : CartQuantity(heap', cart', id) = 0)
            => \/ \E id \in ProductIds : handleRemoveFromCart(id)
               \/ \E f \in flows : createOrderSettles(f, TRUE)]_vars

C3_Witness ==
    /\ Len(cart) = 2
    /\ heap[cart[1]].quantity = 1
    /\ heap[cart[2]].quantity = 2

RemoveAt(s, i) == SubSeq(s, 1, i - 1) \o SubSeq(s, i + 1, Len(s))

\* position-independent: `after` is `before` with the one record `o` put in
InsertedOnce(before, after, o) ==
    \E k \in DOMAIN after : after[k] = o /\ RemoveAt(after, k) = before

Suffix(s, n) == SubSeq(s, Len(s) - n + 1, Len(s))

\* C5: the items, quantities, prices and totals of a stored order are a
\* snapshot: no later cart operation and no later catalog operation changes
\* any order that is in the history.
C5_StoredOrdersAreSnapshots ==
    [][Len(orders') >= Len(orders)
         => Suffix(Serialized(heap', orders'), Len(orders)) = getOrders]_vars

C5_Witness ==
    /\ orders # <<>>
    /\ cart # <<>>
    /\ getOrders[1].items # Deref(heap, cart)
    /\ getOrders[1].items[1].price # getProducts[Len(getProducts)].price
    /\ failures > 0

\* C6: the wizard is at the confirmation step only if the createOrder call
\* of this checkout has succeeded and the order was written to the history.
C6_ConfirmationOnlyAfterSave ==
    step = "confirmation" => sessionSaved /\ lsOrders # <<>>

C6_Witness ==
    /\ step = "confirmation"
    /\ failures > 0
    /\ cart = <<>>

\* C7: when createOrder fails during finalize, on any payment branch, the
\* wizard stays at the payment step with processing off, an error is shown,
\* the shipping details are still held and the payment can be submitted
\* again; there is no failed step.
C7_FailureIsRetryable ==
    /\ [](step \in {"shipping", "payment", "confirmation"})
    /\ [][\A f \in flows :
            createOrderSettles(f, FALSE)
            => /\ step' = "payment"
               /\ ~isProcessing'
               /\ alerted'
               /\ shippingData' = f.closure.shippingData
               /\ shippingData' # NULL
               /\ Deref(heap', cart') = Deref(heap, cart)
               /\ paymentMethod' = f.closure.paymentMethod
               /\ isCheckoutOpen']_vars

C7_Witness ==
    /\ alerted
    /\ step = "payment"
    /\ paymentMethod = "paypal"
    /\ ~isProcessing
    /\ shippingData # NULL

\* C8 as stated: the step moves only from shipping to payment and from
\* payment to confirmation, and never leaves confirmation.
C8_Original ==
    [][step' # step
         => \/ step = "shipping" /\ step' = "payment"
            \/ step = "payment" /\ step' = "confirmation"]_vars

\* C8: the step moves forward only from shipping to payment, by submitting
\* the shipping form, and from payment to confirmation, by a successful
\* finalize; it moves back from payment to shipping by the Back button, and
\* closing the modal resets it to shipping from any step; while the modal
\* stays open, confirmation is not left.
C8_StepTransitions ==
    /\ [][step' # step
            => \/ /\ step = "shipping" /\ step' = "payment"
                  /\ \E data \in ShippingInputs : handleShippingSubmit(data)
               \/ /\ step = "payment" /\ step' = "confirmation"
                  /\ \E f \in flows : createOrderSettles(f, TRUE)
               \/ /\ step = "payment" /\ step' = "shipping"
                  /\ Back \/ onClose
               \/ /\ step = "confirmation" /\ step' = "shipping"
                  /\ onClose]_vars
    /\ [][step = "confirmation" /\ isCheckoutOpen' => step' = "confirmation"]_vars

C8_Witness ==
    /\ step = "confirmation"
    /\ Len(orders) = 2
    /\ isCheckoutOpen

\* the components whose effect ran in the step that led to this state
Resolving == {c \in DOMAIN lastRun : comps[c].mounted}

\* C9: while the language is English, the source language, every mounted
\* component shows its source text as it is, and a resolution makes no
\* dictionary, memory or cache lookup and no remote call.
C9_EnglishShowsSource ==
    /\ language = "en"
          => \A c \in Comps :
                comps[c].mounted => comps[c].content = comps[c].value
    /\ \A c \in Resolving :
          language = "en" => lastRun[c].tiers = <<>> /\ ~lastRun[c].issued
    /\ \A call \in BagToSet(calls) : call.lang # "en"

\* C9, for the resolution alone: when the language is English, a run of the
\* effect leaves the source text on display, makes no dictionary, memory or
\* cache lookup and calls the remote service not at all.
C9_SourceLanguageVerbatim ==
    /\ \A c \in Resolving :
          language = "en"
          => /\ comps[c].content = comps[c].value
             /\ ~comps[c].loading
             /\ lastRun[c].tiers = <<>>
             /\ ~lastRun[c].issued
    /\ \A call \in BagToSet(calls) : call.lang # "en"

C9_Witness ==
    /\ language = "en"
    /\ calls # EmptyBag
    /\ \E c \in Resolving :
          /\ comps[c].content = comps[c].value
          /\ CacheKey("fr", comps[c].value) \in DOMAIN cache

\* C10 as stated: when the cache holds an entry for the language and the
\* hash of the source text, a resolution shows the cached value and makes
\* no remote call.
C10_Original ==
    \A c \in Resolving :
       CacheKey(language, comps[c].value) \in DOMAIN cache
       => /\ comps[c].content = cache[CacheKey(language, comps[c].value)]
          /\ ~lastRun[c].issued

\* C10: when the cache holds an entry for the language and the hash of the
\* source text, a resolution makes no remote call, and it shows the cached
\* value unless the dictionary lookup by key or the translation-memory
\* lookup yields a value, which is shown instead.
C10_CacheHitNoRemoteCall ==
    \A c \in Resolving :
       CacheKey(language, comps[c].value) \in DOMAIN cache
       => /\ ~lastRun[c].issued
          /\ ~comps[c].loading
          /\ comps[c].content =
               IF comps[c].key # NoKey
                  /\ getExactTranslation(language, comps[c].key) # <<>>
               THEN getExactTranslation(language, comps[c].key)
               ELSE IF findBestTranslation(language, comps[c].value) # <<>>
               THEN findBestTranslation(language, comps[c].value)
               ELSE cache[CacheKey(language, comps[c].value)]

C10_Witness ==
    \E c \in Resolving :
       /\ CacheKey(language, comps[c].value) \in DOMAIN cache
       /\ comps[c].value = Aa
       /\ comps[c].content = Translated(BB, "fr")
       /\ lastRun[c].tiers = <<"memory", "cache">>

\* the answers that are no translation: null (failure, empty) or the text
NonResults(call) == {<<>>, call.value}

\* what the component that issued `call` does when, after the step, it
\* resolves the call's text in the call's language again
Retried(call) ==
    Effect(Traced([comps'[call.comp] EXCEPT !.value = call.value]),
           call.lang, cache')

\* C11 as stated: when a call of a mounted component fails, answers nothing
\* or answers the text itself, the component shows the call's source text,
\* the cache is not written, no error is raised, and the next resolution of
\* that text in that language issues another remote call.
C11_Original ==
    [][\A call \in BagToSet(calls) : \A result \in NonResults(call) :
         (RemoteResolves(call, result) /\ call.mounted)
         => /\ comps'[call.comp].content = call.value
            /\ ~comps'[call.comp].loading
            /\ cache' = cache
            /\ alerted' = alerted
            /\ Retried(call).issued]_vars

\* C11: when a call of a mounted component fails, answers nothing or answers
\* the text itself, the component shows the call's source text, the cache is
\* not written and no error is raised; the next resolution of that text in
\* that language issues another remote call unless another request has
\* written the cache entry of (language, hash(text)), which is then shown.
C11_NonResultNotCached ==
    [][\A call \in BagToSet(calls) : \A result \in NonResults(call) :
         (RemoteResolves(call, result) /\ call.mounted)
         => /\ comps'[call.comp].content = call.value
            /\ ~comps'[call.comp].loading
            /\ cache' = cache
            /\ alerted' = alerted
            /\ IF CacheKey(call.lang, call.value) \in DOMAIN cache
               THEN /\ ~Retried(call).issued
                    /\ Retried(call).content
                         = cache[CacheKey(call.lang, call.value)]
               ELSE Retried(call).issued]_vars

C11_Witness ==
    /\ language = "fr"
    /\ calls = EmptyBag
    /\ lastRun = <<>>
    /\ cache = <<>>
    /\ \E c \in Comps :
          /\ comps[c].mounted
          /\ comps[c].content = comps[c].value
          /\ ~comps[c].loading

\* what each tier holds for a component in the current language
ByKey(c) ==
    IF comps[c].key # NoKey THEN getExactTranslation(language, comps[c].key)
    ELSE <<>>
ByMemory(c) == findBestTranslation(language, comps[c].value)
ByCache(c) ==
    IF CacheKey(language, comps[c].value) \in DOMAIN cache
    THEN cache[CacheKey(language, comps[c].value)]
    ELSE <<>>

\* C12: in a language other than English a resolution consults the
\* dictionary by key, then the translation memory, then the cache, then the
\* remote service; the first that yields a value gives the displayed text
\* and none after it is consulted, so a call is issued only when the three
\* lookups miss.
C12_TierOrder ==
    \A c \in Resolving :
       language # "en"
       => LET first == IF comps[c].key # NoKey THEN <<"dictionary">> ELSE <<>>
          IN IF ByKey(c) # <<>>
             THEN /\ comps[c].content = ByKey(c)
                  /\ lastRun[c].tiers = <<"dictionary">>
                  /\ ~lastRun[c].issued /\ ~comps[c].loading
             ELSE IF ByMemory(c) # <<>>
             THEN /\ comps[c].content = ByMemory(c)
                  /\ lastRun[c].tiers = first \o <<"memory">>
                  /\ ~lastRun[c].issued /\ ~comps[c].loading
             ELSE IF ByCache(c) # <<>>
             THEN /\ comps[c].content = ByCache(c)
                  /\ lastRun[c].tiers = first \o <<"memory", "cache">>
                  /\ ~lastRun[c].issued /\ ~comps[c].loading
             ELSE /\ lastRun[c].tiers = first \o <<"memory", "cache">>
                  /\ lastRun[c].issued /\ comps[c].loading

C12_Witness ==
    /\ language = "am"
    /\ \E c, d \in Resolving :
          /\ ByKey(c) = <<>> /\ ByMemory(c) # <<>> /\ ByCache(c) # <<>>
          /\ comps[c].content = ByMemory(c)
          /\ ByKey(d) # <<>> /\ comps[d].value = BB

\* an answer that is a translation: not empty and not the text itself
Valid(call, result) == result # <<>> /\ result # call.value

\* C13: when the component that issued a call was unmounted before the call
\* resolves, the answer is not applied to any component's display, and a
\* valid answer is still written to the cache entry of (language,
\* hash(text)).
C13_UnmountedStillCaches ==
    [][\A call \in BagToSet(calls) :
         \A result \in RemoteResults(call.value, call.lang) :
            (RemoteResolves(call, result) /\ ~call.mounted)
            => /\ comps' = comps
               /\ Valid(call, result)
                    => /\ CacheKey(call.lang, call.value) \in DOMAIN cache'
                       /\ cache'[CacheKey(call.lang, call.value)] = result]_vars

\* C14: while a component is in its loading state, waiting for a remote
\* call, it shows the source text currently passed to it: not a blank and
\* not a translation for another language or another text.
C14_PendingShowsSource ==
    \A c \in Comps :
       (comps[c].mounted /\ comps[c].loading)
       => comps[c].content = comps[c].value

\* the cache keys whose entry the step writes or removes
Written == {k \in DOMAIN cache \cup DOMAIN cache' :
              k \notin DOMAIN cache \/ k \notin DOMAIN cache'
                \/ cache'[k] # cache[k]}

\* C15: every value written to the translation cache is a non-empty remote
\* answer that differs from the source text of the request that writes it;
\* no step deletes an entry or leaves an empty value in the cache.
C15_CacheHoldsTranslations ==
    /\ [](\A k \in DOMAIN cache : cache[k] # <<>>)
    /\ [][/\ DOMAIN cache \subseteq DOMAIN cache'
          /\ \A k \in Written :
                \E call \in BagToSet(calls) :
                   /\ RemoteResolves(call, cache'[k])
                   /\ k = CacheKey(call.lang, call.value)
                   /\ Valid(call, cache'[k])]_vars

C15_Witness ==
    /\ language = "fr"
    /\ calls = EmptyBag
    /\ lastRun = <<>>
    /\ \A c \in Comps :
          /\ comps[c].mounted
          /\ comps[c].value = Aa
          /\ comps[c].content = Translated(Aa, "fr")
    /\ cache = (CacheKey("fr", Aa) :> Translated(Aa, "fr"))

\* C16: a backend mutation whose persistent-store write fails commits
\* nothing: listOrders and listProducts answer afterwards as they did before.
C16_FailedWriteCommitsNothing ==
    [][failures' # failures
       => getOrders' = getOrders /\ getProducts' = getProducts]_vars

\* C17: deleteProduct with an id that is not in the catalog leaves the
\* catalog as it was and is rejected only when the store write itself
\* throws; after any deleteProduct(id) a second deleteProduct(id) would
\* leave the catalog as the first one left it.
C17_DeleteIsIdempotent ==
    [][\A id \in CatalogIds, ok \in BOOLEAN :
         deleteProduct(id, ok)
         => /\ FindIndex(products, id) = 0
               => /\ getProducts' = getProducts
                  /\ ok => /\ deleteProductError(products, id, ok) = NULL
                           /\ lsProducts' = <<products>>
            /\ FindIndex(getProducts', id) = 0
            /\ DeletedProducts(getProducts', id) = getProducts']_vars

C17_Witness ==
    /\ FindIndex(products, "p1") = 0
    /\ Len(products) = 1
    /\ lsProducts = <<products>>

\* C18: updateProduct with an unknown id is rejected with 'Product not
\* found' and changes neither this.products nor the stored catalog; with a
\* known id it sets exactly the given fields on the first product with that
\* id, in place, and changes no other product.
C18_UpdateMergesInPlace ==
    [][\A id \in CatalogIds, updates \in Updates, ok \in BOOLEAN :
         updateProduct(id, updates, ok)
         => LET index == FindIndex(products, id)
            IN IF index = 0
               THEN /\ updateProductError(products, id, ok) = "Product not found"
                    /\ products' = products
                    /\ lsProducts' = lsProducts
               ELSE /\ updateProductError(products, id, ok) # "Product not found"
                    /\ Len(products') = Len(products)
                    /\ \A j \in DOMAIN products :
                          j # index => products'[j] = products[j]
                    /\ DOMAIN products'[index] = ProductFields
                    /\ \A k \in ProductFields :
                          products'[index][k] =
                             IF k \in DOMAIN updates THEN updates[k]
                             ELSE products[index][k]]_vars

C18_Witness ==
    /\ Len(products) = 2
    /\ products[1] = MOCK_PRODUCTS[1]
    /\ products[2].id = MOCK_PRODUCTS[2].id
    /\ products[2].price # MOCK_PRODUCTS[2].price
    /\ FindIndex(products, "p0") = 0

\* the outcome of the three checks of the card form, per field
Checks(cardOk, expiryOk, cvcOk) ==
    [cardNumber |-> cardOk, expiry |-> expiryOk, cvc |-> cvcOk]

\* C19: a submit of the card form flags exactly the fields whose check
\* fails, all of them at once; when a field fails, processing does not
\* start, no flow and no order is created and the wizard stays in Payment.
C19_AllCardErrorsReported ==
    [][\A cardOk, expiryOk, cvcOk \in BOOLEAN :
         handleCreditCardFlow(cardOk, expiryOk, cvcOk)
         => LET ok == Checks(cardOk, expiryOk, cvcOk)
            IN /\ errors' = {field \in DOMAIN ok : ~ok[field]}
               /\ (\E field \in DOMAIN ok : ~ok[field])
                  => /\ ~isProcessing'
                     /\ flows' = flows
                     /\ orders' = orders
                     /\ lsOrders' = lsOrders
                     /\ step = "payment" /\ step' = "payment"
               /\ (\A field \in DOMAIN ok : ok[field]) => isProcessing']_vars

C19_Witness ==
    /\ errors = {"expiry", "cvc"}
    /\ step = "payment"
    /\ paymentMethod = "credit_card"
    /\ ~isProcessing
    /\ flows = {}
    /\ orders = <<>>

\* the Luhn sum: counting positions from the right, every second digit is
\* doubled and 9 is taken off a doubled value above 9
LuhnDigit(s, i) ==
    LET d == s[i] - 48
    IN IF (Len(s) - i) % 2 = 1
       THEN IF 2 * d > 9 THEN 2 * d - 9 ELSE 2 * d
       ELSE d

LuhnSum(s) == SumSeq([i \in DOMAIN s |-> LuhnDigit(s, i)])

Accepted(s) == Len(s) >= 13 /\ Len(s) <= 19 /\ LuhnSum(s) % 10 = 0

DigitsOnly(s) == \A i \in DOMAIN s : s[i] \in DigitCodes

\* 4539148803436468
TestCardOff == [TestCard EXCEPT ![Len(TestCard)] = 56]

\* C20: a card number made of decimal digits only is accepted exactly when
\* it has 13 to 19 digits and its Luhn sum is 0 mod 10, and a submit flags
\* the card number field exactly when it is not; 4539148803436467 is
\* accepted and 4539148803436468 is rejected.
C20_LuhnValidator ==
    /\ [](/\ DigitsOnly(cardNumber)
             => (isValidCreditCard(cardNumber) <=> Accepted(cardNumber))
          /\ isValidCreditCard(TestCard)
          /\ ~isValidCreditCard(TestCardOff))
    /\ [][(/\ DigitsOnly(cardNumber)
           /\ cardNumber # <<>>
           /\ handleCreditCardFlow(isValidCreditCard(cardNumber), TRUE, TRUE))
          => /\ Accepted(cardNumber) => errors' = {} /\ isProcessing'
             /\ ~Accepted(cardNumber)
                => errors' = {"cardNumber"} /\ ~isProcessing']_vars

C20_Witness ==
    /\ cardNumber = TestCard
    /\ errors = {}
    /\ isProcessing
    /\ \E f \in flows : f.pc = "card_encrypt"

\* C21: the verdict of the card-number validator on the content of the card
\* number field equals its verdict on that content with every non-digit
\* character deleted.
C21_VerdictOfDigits ==
    isValidCreditCard(cardNumber) <=> isValidCreditCard(DigitsOf(cardNumber))

\* C22: the subscriber list never holds the same string twice; an
\* addSubscriber with an address that is already in the list changes neither
\* the list nor the stored record; an address that differs from the listed
\* ones, be it in letter case only, is put in front as a new entry.
C22_SubscribersAreDistinct ==
    /\ [](\A i, j \in DOMAIN getSubscribers :
             getSubscribers[i] = getSubscribers[j] => i = j)
    /\ [][\A email \in Emails, ok \in BOOLEAN :
            addSubscriber(email, ok)
            => IF \E i \in DOMAIN subscribers : subscribers[i] = email
               THEN /\ getSubscribers' = getSubscribers
                    /\ lsSubscribers' = lsSubscribers
               ELSE getSubscribers' = <<email>> \o getSubscribers]_vars

C22_Witness ==
    /\ subscribing = EmptyBag
    /\ getSubscribers = <<"A@x.et", "a@x.et">>
    /\ lsSubscribers = <<getSubscribers>>

\* the records of the stored history, <<>> when the key is absent
StoredOrders == IF lsOrders = <<>> THEN <<>> ELSE lsOrders[1]

\* C23: every order of the history, in memory and in the store, has status
\* 'pending' in every reachable state.
C23_OrdersStayPending ==
    /\ \A i \in DOMAIN getOrders : getOrders[i].status = "pending"
    /\ \A i \in DOMAIN StoredOrders : StoredOrders[i].status = "pending"

C23_Witness ==
    /\ Len(StoredOrders) = 2
    /\ getOrders = StoredOrders
    /\ {getOrders[i].paymentMethod : i \in DOMAIN getOrders}
          \in {{"credit_card", "paypal"}, {"credit_card", "bank_transfer"},
               {"paypal", "bank_transfer"}}
    /\ step = "confirmation"

\* C24: no two products of the catalog have the same id, and an addProduct
\* puts in front a product whose id is not yet in the catalog.
C24_ProductIdsUnique ==
    /\ [](\A i, j \in DOMAIN getProducts :
             getProducts[i].id = getProducts[j].id => i = j)
    /\ [][\A price \in Prices, id \in GeneratedIds, ok \in BOOLEAN :
            addProduct(price, id, ok) => FindIndex(getProducts, id) = 0]_vars

C26_NoStaleResponse ==
    [][\A call \in BagToSet(calls) :
         \A result \in RemoteResults(call.value, call.lang) :
            (/\ RemoteResolves(call, result)
             /\ comps[call.comp].mounted
             /\ \/ call.lang # language
                \/ call.value # comps[call.comp].value)
            => comps'[call.comp].content = comps[call.comp].content]_vars

\* C27: whenever processing is on, it is eventually off again with the
\* wizard in Confirmation or in Payment, given that timers fire and
\* createOrder settles; and the shipping details are set whenever the wizard
\* is in Payment, as they are in the closure of every payment flow.
C27_ProcessingEnds ==
    /\ [](step = "payment" => shippingData # NULL)
    /\ [](\A f \in flows : f.closure.shippingData # NULL)
    /\ isProcessing ~> (~isProcessing /\ step \in {"confirmation", "payment"})

C27_Witness ==
    /\ ~isProcessing
    /\ alerted
    /\ step = "payment"
    /\ flows = {}
    /\ Len(orders) = 1

\* C28: no two orders of the history have the same id.
C28_OrderIdsUnique ==
    \A i, j \in DOMAIN getOrders : getOrders[i].id = getOrders[j].id => i = j

\* the cart as the shopper sees it: the items by value
CartContent(h, c) == Deref(h, c)

\* C29: while the checkout modal is open the cart content changes only in
\* the step in which a createOrder call of this checkout succeeded (its order
\* is the head of the stored history) and the wizard enters Confirmation,
\* where the cart becomes empty; entering Confirmation always empties the
\* cart; a step that records new validation errors, a failing createOrder and
\* closing the wizard before finalizing leave the cart content unchanged.
C29_CartClearedOnlyOnSuccess ==
    [][isCheckoutOpen =>
         /\ CartContent(heap', cart') # CartContent(heap, cart) =>
               /\ cart' = <<>>
               /\ step = "payment" /\ step' = "confirmation"
               /\ failures' = failures
               /\ lsOrders' = <<getOrders'>>
               /\ Len(getOrders') = Len(getOrders) + 1
               /\ getOrders'[1].id = orderRef
         /\ (step # "confirmation" /\ step' = "confirmation") =>
               cart # <<>> /\ cart' = <<>>
         /\ ((errors' # {} /\ errors' # errors) \/ failures' > failures
               \/ (~isCheckoutOpen' /\ step # "confirmation")) =>
               CartContent(heap', cart') = CartContent(heap, cart)
      ]_vars

C29_Witness ==
    /\ isCheckoutOpen /\ step = "confirmation" /\ cart = <<>>
    /\ failures = 1 /\ lsOrders # <<>> /\ lsOrders[1][1].id = orderRef

\* the payment branch whose handler schedules the timer a flow waits for
BranchOf(pc) ==
    IF pc \in {"paypal_open", "paypal_wait"} THEN "paypal"
    ELSE IF pc \in {"card_encrypt", "card_bank", "card_verify"} THEN "credit_card"
    ELSE IF pc = "bank_register" THEN "bank_transfer"
    ELSE NULL

\* a closure with its cart by value
ClosureValue(h, c) == [c EXCEPT !.cart = Deref(h, c.cart)]

\* an order that agrees with itself
Consistent(o) ==
    /\ o.items # <<>>
    /\ o.subtotal = SumSeq([i \in DOMAIN o.items |->
                              o.items[i].price * o.items[i].quantity])
    /\ o.total = o.subtotal + o.shippingCost + o.duties
    /\ o.paymentMethod \in PaymentMethods
    /\ o.cardProvider # NULL => o.paymentMethod = "credit_card"

\* a flow appears only by a submit on the branch that is selected, with the
\* non-empty cart of that moment, and keeps its closure until it ends
FlowsKeepTheirSubmission ==
    \A g \in flows' :
       IF ~isProcessing
       THEN /\ g.pc # "saving"
            /\ BranchOf(g.pc) = paymentMethod
            /\ cart # <<>>
            /\ ClosureValue(heap', g.closure) = ClosureValue(heap, Closure)
       ELSE \E f \in flows :
               /\ ClosureValue(heap, f.closure) = ClosureValue(heap', g.closure)
               /\ f.pc # "saving" => BranchOf(f.pc) = f.closure.paymentMethod
               /\ g.pc # "saving" => BranchOf(g.pc) = BranchOf(f.pc)

\* an order enters the history only as the order of a flow that is saving,
\* with the items of the cart as it was submitted and still is
OrdersComeFromFlows ==
    Len(getOrders') > Len(getOrders) =>
       \E f \in flows :
          /\ f.pc = "saving"
          /\ getOrders' = <<[newOrder(f.closure) EXCEPT
                               !.items = Deref(heap, f.closure.cart)]>>
                            \o getOrders
          /\ getOrders'[1].items = CartContent(heap, cart)
          /\ getOrders'[1].paymentMethod = f.closure.paymentMethod

\* C30: every order of the history, in memory and in the store, is
\* consistent: subtotal = sum of price x quantity over its items, total =
\* subtotal + shippingCost + duties, items non-empty, cardProvider non-null
\* only for credit_card; its items are the cart as it was when the payment
\* was submitted and its paymentMethod is the branch of the submitting
\* handler, the timers in between notwithstanding.
C30_OrdersConsistent ==
    /\ [](\A i \in DOMAIN getOrders : Consistent(getOrders[i]))
    /\ [](\A i \in DOMAIN StoredOrders : Consistent(StoredOrders[i]))
    /\ [](\A f \in flows :
            f.pc # "saving" => BranchOf(f.pc) = f.closure.paymentMethod)
    /\ [][FlowsKeepTheirSubmission /\ OrdersComeFromFlows]_vars

C30_Witness ==
    /\ StoredOrders # <<>>
    /\ StoredOrders[1].paymentMethod = "paypal"
    /\ StoredOrders[1].cardProvider = NULL
    /\ Len(StoredOrders[1].items) = 2
    /\ StoredOrders[1].items[1].quantity = 2

====
